---- MODULE Spec2Model ----
(***************************************************************************)
(* A model of src/src/main.rs: the symbol filter, the peephole rewrite of  *)
(* loop idioms, the one-pass assembler with its jump stack and fusion, and *)
(* the fetch-decode-execute loop over the byte tape.                       *)
(*                                                                         *)
(* Text is a sequence of character codes (Unicode scalar values).  Rust    *)
(* indices are 0-based: the instruction with index i is instructions[i+1]. *)
(* A usize that holds a negative isize cast (2^64 + v) is represented by   *)
(* the negative integer v itself; it is never compared or used as an index *)
(* without going through InBounds or Advance.                              *)
(***************************************************************************)
EXTENDS Integers, Sequences, FiniteSets, TLC

\* ------------------------------------------------------------ bounds
\* longest text of the exhaustively enumerated short programs
MaxLen == 3
\* largest repeat count of a generated scan loop [<<<] / [>>>]
MaxRep == 28
\* number of non-zero cells a scan program lays out before its loop
MaxCells == 2
\* longest pre-loaded input
MaxIn == 2
\* highest optimization level that is run
MaxLevel == 2
\* executed instructions after which a run is no longer followed
MaxSteps == 200

\* ------------------------------------------------------------ characters
LT == 60
GT == 62
PLUS == 43
MINUS == 45
OPEN == 91
CLOSE == 93
DOT == 46
COMMA == 44
EQUALS == 61
PIPE == 124
LOWER_A == 97
UPPER_A == 65
LOWER_Z == 122
UPPER_Z == 90
NEWLINE == 10

\* vec![0; u16::MAX.into()]
MemLen == 65535
\* the read of the live input source that fails (Err), as an element of stdin
ReadErr == -1

Rep(c, n) == [i \in 1..n |-> c]

\* ------------------------------------------------------------ regex
\* The four kinds of pattern main() compiles:
\*   "notin": one character outside a class           [^...]
\*   "lit"  : a literal string                        \[\+\]
\*   "loop" : '[', lo..hi copies of ch, ']'           \[(<{1,27})\]
FilterExp == [kind |-> "notin", set |-> {PLUS, PIPE, MINUS, LT, GT, DOT, COMMA, OPEN, CLOSE}]
ZeroPlusExp == [kind |-> "lit", str |-> <<OPEN, PLUS, CLOSE>>]
ZeroMinusExp == [kind |-> "lit", str |-> <<OPEN, MINUS, CLOSE>>]
ScanLeftExp == [kind |-> "loop", ch |-> LT, lo |-> 1, hi |-> 27]
ScanRightExp == [kind |-> "loop", ch |-> GT, lo |-> 1, hi |-> 27]

\* number of consecutive ch in text from position i on
RunLen(text, i, ch) ==
    CHOOSE n \in 0..(Len(text) + 1 - i) :
        /\ \A j \in 0..(n - 1) : text[i + j] = ch
        /\ i + n > Len(text) \/ text[i + n] # ch

\* length of the match of exp that starts at position i of text, 0 if none
MatchLen(text, i, exp) ==
    CASE exp.kind = "notin" -> IF text[i] \notin exp.set THEN 1 ELSE 0
      [] exp.kind = "lit" ->
            LET n == Len(exp.str) IN
            IF i + n - 1 <= Len(text) /\ SubSeq(text, i, i + n - 1) = exp.str
            THEN n ELSE 0
      [] exp.kind = "loop" ->
            LET n == RunLen(text, i + 1, exp.ch) IN
            IF /\ text[i] = OPEN
               /\ n >= exp.lo /\ n <= exp.hi
               /\ i + n + 1 <= Len(text)
               /\ text[i + n + 1] = CLOSE
            THEN n + 2 ELSE 0

\* the replacement closure: starter as u8 + (length of capture group 1) as u8
ScanSymbol(starter, len) == ((starter % 256) + (len % 256)) % 256

\* what a match of length n is replaced by: the string of replace_all, or the
\* closure of replace_all2 applied to the capture (the match without its brackets)
Replacement(rep, n) ==
    IF rep.kind = "str" THEN rep.str ELSE <<ScanSymbol(rep.starter, n - 2)>>

\* Regex::replace_all from position i on, for at most `steps` match attempts:
\* a match is replaced and skipped, any other character is copied.  The text
\* is scanned left to right, so the matches are the leftmost non-overlapping ones.
RECURSIVE ReplaceFrom(_, _, _, _, _)
ReplaceFrom(text, i, exp, rep, steps) ==
    IF i > Len(text) \/ steps = 0 THEN [out |-> <<>>, next |-> i]
    ELSE IF steps = 1
    THEN LET n == MatchLen(text, i, exp) IN
         IF n > 0 THEN [out |-> Replacement(rep, n), next |-> i + n]
         ELSE [out |-> <<text[i]>>, next |-> i + 1]
    ELSE LET half == steps \div 2
             a == ReplaceFrom(text, i, exp, rep, half)
             b == ReplaceFrom(text, a.next, exp, rep, steps - half)
         IN [out |-> a.out \o b.out, next |-> b.next]

replace_all(text, exp, rep) ==
    ReplaceFrom(text, 1, exp, [kind |-> "str", str |-> rep], Len(text)).out

replace_all2(text, exp, starter) ==
    ReplaceFrom(text, 1, exp, [kind |-> "scan", starter |-> starter], Len(text)).out

\* let mut raw_bf = replace_all(&raw_file, r"[^+|\-|<|>|\.|,|\[|\]]", "")
Filter(text) == replace_all(text, FilterExp, <<>>)

\* the four rewrites of the level > 0 branch, in order
Peephole(text, lvl) ==
    IF lvl > 0
    THEN LET t1 == replace_all(text, ZeroPlusExp, <<EQUALS>>)
             t2 == replace_all(t1, ZeroMinusExp, <<EQUALS>>)
             t3 == replace_all2(t2, ScanLeftExp, LOWER_A)
             t4 == replace_all2(t3, ScanRightExp, UPPER_A)
         IN t4
    ELSE text

\* ------------------------------------------------------------ decode
New(cmd, val) == [cmd |-> cmd, val |-> val, offset |-> 0]

Err == [cmd |-> "Err", val |-> 0, offset |-> 0]

is_ascii_lowercase(c) == c >= LOWER_A /\ c <= LOWER_Z

is_ascii_uppercase(c) == c >= UPPER_A /\ c <= UPPER_Z

try_from(raw_cmd) ==
    CASE raw_cmd = LT -> New("IncRef", -1)
      [] raw_cmd = GT -> New("IncRef", 1)
      [] raw_cmd = PLUS -> New("IncVal", 1)
      [] raw_cmd = MINUS -> New("IncVal", -1)
      [] raw_cmd = OPEN -> New("JumpTo", -1)
      [] raw_cmd = CLOSE -> New("JumpBack", -1)
      [] raw_cmd = DOT -> New("StdOut", 0)
      [] raw_cmd = COMMA -> New("StdIn", 0)
      [] raw_cmd = EQUALS -> New("SetVal", 0)
      [] OTHER ->
            IF is_ascii_lowercase(raw_cmd)
            THEN New("ScanTo", 0 - ((raw_cmd % 256) - LOWER_A))
            ELSE IF is_ascii_uppercase(raw_cmd)
            THEN New("ScanTo", (raw_cmd % 256) - UPPER_A)
            ELSE Err

\* ------------------------------------------------------------ assembler
\* mutant of PopEmpty: the unmatched loop-close is skipped
PopEmptyIgnored(a) == a

\* jumps.pop().unwrap() on the empty stack
PopEmpty(a) == [a EXCEPT !.status = "panic"]

\* mutant of FuseEnabled: fusion is switched on together with the rewrites
FuseEnabledFromLevel1(lvl) == lvl > 0

\* args.level > 1
FuseEnabled(lvl) == lvl > 1

\* mutant of Fuse: the instruction is dropped, its value is not added
FuseDropsValue(last, ins) == last

\* last.offset += instruction.offset; last.val += instruction.val
Fuse(last, ins) == [last EXCEPT !.offset = @ + ins.offset, !.val = @ + ins.val]

\* One iteration of `for val in raw_bf.chars()` on a = [instructions, jumps,
\* status]; status "panic" ends the assembly.
AsmStep(a, val, lvl) ==
    LET instruction == try_from(val)
        i == Len(a.instructions)
    IN
    IF instruction.cmd = "Err" THEN a
    ELSE IF instruction.cmd = "JumpBack" /\ a.jumps = <<>>
    THEN PopEmpty(a)
    ELSE
      LET isBack == instruction.cmd = "JumpBack"
          x == a.jumps[Len(a.jumps)]
          patched == IF isBack
                     THEN [a.instructions EXCEPT ![x + 1] = New("JumpTo", i)]
                     ELSE a.instructions
          ins == IF isBack THEN [instruction EXCEPT !.val = x] ELSE instruction
          jumps1 == IF isBack THEN SubSeq(a.jumps, 1, Len(a.jumps) - 1)
                    ELSE IF instruction.cmd = "JumpTo" THEN Append(a.jumps, i)
                    ELSE a.jumps
          fuse == /\ FuseEnabled(lvl)
                  /\ i > 0
                  /\ ins.cmd \in {"IncRef", "IncVal"}
                  /\ patched[i].cmd = ins.cmd
      IN
      IF fuse
      THEN [a EXCEPT !.instructions = [patched EXCEPT ![i] = Fuse(@, ins)],
                     !.jumps = jumps1]
      ELSE [a EXCEPT !.instructions = Append(patched, ins), !.jumps = jumps1]

EmptyAsm == [instructions |-> <<>>, jumps |-> <<>>, status |-> "ok"]

\* the assembly loop over text[lo..hi], stopped by a panic
RECURSIVE AssembleFrom(_, _, _, _, _)
AssembleFrom(a, text, lo, hi, lvl) ==
    IF lo > hi \/ a.status = "panic" THEN a
    ELSE IF lo = hi THEN AsmStep(a, text[lo], lvl)
    ELSE LET mid == (lo + hi) \div 2 IN
         AssembleFrom(AssembleFrom(a, text, lo, mid, lvl), text, mid + 1, hi, lvl)

Assemble(text, lvl) == AssembleFrom(EmptyAsm, text, 1, Len(text), lvl)

\* ------------------------------------------------------------ executor
\* mutant of InBounds: an index is not compared with the length of the tape
InBoundsBelowOnly(a) == a >= 0

\* The tape holds MemLen cells; memory maps the non-zero cells to their value.
InBounds(a) == a >= 0 /\ a < MemLen

MemRead(mem, a) == IF a \in DOMAIN mem THEN mem[a] ELSE 0

MemWrite(mem, a, v) ==
    IF v = 0 THEN [x \in (DOMAIN mem) \ {a} |-> mem[x]]
    ELSE [x \in (DOMAIN mem) \cup {a} |-> IF x = a THEN v ELSE mem[x]]

\* mutant of AsU8: the cast saturates at the ends of the range
AsU8Saturating(v) == IF v > 255 THEN 255 ELSE IF v < 0 THEN 0 ELSE v

\* `as u8` of an integer or of a char
AsU8(v) == v % 256

\* print!("{}", val as char): the UTF-8 encoding of the scalar value U+0000..U+00FF
PrintChar(val) ==
    IF val < 128 THEN <<val>>
    ELSE <<192 + (val \div 64), 128 + (val % 64)>>

Panic(m) == [m EXCEPT !.status = "panic"]

\* mutant of ExecIncRef: the data pointer is not checked after the move
ExecIncRefUnchecked(m, ins) == [m EXCEPT !.mem_ptr = @ + ins.val]

ExecIncRef(m, ins) ==
    LET p == m.mem_ptr + ins.val IN
    IF p < 0 THEN Panic([m EXCEPT !.mem_ptr = p])
    ELSE [m EXCEPT !.mem_ptr = p]

ExecIncVal(m, ins) ==
    LET ptr == m.mem_ptr + ins.offset IN
    IF ~InBounds(ptr) \/ ~InBounds(m.mem_ptr) THEN Panic(m)
    ELSE LET val == MemRead(m.memory, ptr) + ins.val IN
         [m EXCEPT !.memory = MemWrite(@, m.mem_ptr, AsU8(val))]

\* mutant of ExecJumpBack: the loop-close always falls through
ExecJumpBackFallsThrough(m, ins) == IF ~InBounds(m.mem_ptr) THEN Panic(m) ELSE m

ExecJumpBack(m, ins) ==
    IF ~InBounds(m.mem_ptr) THEN Panic(m)
    ELSE IF MemRead(m.memory, m.mem_ptr) # 0 THEN [m EXCEPT !.ins_ptr = ins.val]
    ELSE m

ExecJumpTo(m, ins) ==
    IF ~InBounds(m.mem_ptr) THEN Panic(m)
    ELSE IF MemRead(m.memory, m.mem_ptr) = 0 THEN [m EXCEPT !.ins_ptr = ins.val]
    ELSE m

\* stdin.read(&mut input[..]).unwrap(): end of input is Ok(0) and leaves input[0] = 0
ExecStdIn(m, ins) ==
    LET n == Len(m.input_queue)
        ptr == m.mem_ptr + ins.offset
        store(q, input0) ==
            IF ~InBounds(ptr) THEN Panic(q)
            ELSE [q EXCEPT !.memory = MemWrite(@, ptr, input0)]
    IN
    IF n > 0
    THEN store([m EXCEPT !.input_queue = SubSeq(@, 1, n - 1)], AsU8(m.input_queue[n]))
    ELSE IF m.stdin = <<>> THEN store(m, 0)
    ELSE IF Head(m.stdin) = ReadErr THEN Panic([m EXCEPT !.stdin = Tail(@)])
    ELSE store([m EXCEPT !.stdin = Tail(@)], Head(m.stdin))

ExecStdOut(m, ins) ==
    LET ptr == m.mem_ptr + ins.offset IN
    IF ~InBounds(ptr) THEN Panic(m)
    ELSE [m EXCEPT !.stdout = @ \o PrintChar(MemRead(m.memory, ptr))]

\* mutant of ExecSetVal: the cell is left as it is
ExecSetValSkipped(m, ins) == m

ExecSetVal(m, ins) ==
    LET ptr == m.mem_ptr + ins.offset IN
    IF ~InBounds(ptr) THEN Panic(m)
    ELSE [m EXCEPT !.memory = MemWrite(@, ptr, AsU8(ins.val))]

\* while memory[(mem_ptr + ptr) as usize] != 0 { ptr += ins.val }
\* "hang": the stride is 0 on a non-zero cell, the loop never ends
RECURSIVE ScanLoop(_, _, _, _)
ScanLoop(mem, mem_ptr, ptr, val) ==
    IF ~InBounds(mem_ptr + ptr) THEN [status |-> "panic", ptr |-> ptr]
    ELSE IF MemRead(mem, mem_ptr + ptr) = 0 THEN [status |-> "run", ptr |-> ptr]
    ELSE IF val = 0 THEN [status |-> "hang", ptr |-> ptr]
    ELSE ScanLoop(mem, mem_ptr, ptr + val, val)

\* mutant of ExecScanTo: the final mem_ptr += ptr is lost
ExecScanToNoMove(m, ins) ==
    LET r == ScanLoop(m.memory, m.mem_ptr, 0, ins.val) IN
    IF r.status = "run" THEN m
    ELSE [m EXCEPT !.status = r.status]

ExecScanTo(m, ins) ==
    LET r == ScanLoop(m.memory, m.mem_ptr, 0, ins.val) IN
    IF r.status = "run" THEN [m EXCEPT !.mem_ptr = @ + r.ptr]
    ELSE [m EXCEPT !.status = r.status]

\* match ins.cmd { ... }
Dispatch(instrs, m) ==
    LET ins == instrs[m.ins_ptr + 1] IN
    CASE ins.cmd = "IncRef" -> ExecIncRef(m, ins)
      [] ins.cmd = "IncVal" -> ExecIncVal(m, ins)
      [] ins.cmd = "JumpBack" -> ExecJumpBack(m, ins)
      [] ins.cmd = "JumpTo" -> ExecJumpTo(m, ins)
      [] ins.cmd = "StdIn" -> ExecStdIn(m, ins)
      [] ins.cmd = "StdOut" -> ExecStdOut(m, ins)
      [] ins.cmd = "SetVal" -> ExecSetVal(m, ins)
      [] ins.cmd = "ScanTo" -> ExecScanTo(m, ins)

\* ins_ptr += 1; count += 1.  After an unresolved jump ins_ptr is (-1) as usize =
\* usize::MAX: the addition panics in a build with overflow checks and wraps to 0
\* in a build without them.
Advance(m) ==
    IF m.ins_ptr = -1
    THEN {Panic(m), [m EXCEPT !.ins_ptr = 0, !.count = @ + 1]}
    ELSE {[m EXCEPT !.ins_ptr = @ + 1, !.count = @ + 1]}

\* one iteration of `while ins_ptr < ins_len`: the outcomes the build can produce
Step(instrs, m) ==
    LET d == Dispatch(instrs, m) IN
    IF d.status = "run" THEN Advance(d) ELSE {d}

\* the loop ends: println!()
Finish(m) == [m EXCEPT !.status = "done", !.stdout = Append(@, NEWLINE)]

\* the state of lines 164-167 with the given input queue and live input
Boot(queue, live) ==
    [memory |-> <<>>, mem_ptr |-> 0, ins_ptr |-> 0, count |-> 0,
     input_queue |-> queue, stdin |-> live, stdout |-> <<>>, status |-> "run"]

\* at most fuel iterations of `while ins_ptr < ins_len` from m on; the status
\* becomes "either" where the build decides the outcome
RECURSIVE RunFrom(_, _, _)
RunFrom(instrs, m, fuel) ==
    IF m.status # "run" \/ fuel = 0 \/ m.ins_ptr >= Len(instrs) THEN m
    ELSE IF fuel = 1
    THEN LET next == Step(instrs, m) IN
         IF Cardinality(next) = 1 THEN CHOOSE n \in next : TRUE
         ELSE [m EXCEPT !.status = "either"]
    ELSE LET half == fuel \div 2 IN
         RunFrom(instrs, RunFrom(instrs, m, half), fuel - half)

\* The execution loop from m on, followed for at most fuel instructions:
\* status "done" when the loop ends, "fuel" when the instructions do not suffice.
Run(instrs, m, fuel) ==
    LET r == RunFrom(instrs, m, fuel) IN
    IF r.status # "run" THEN r
    ELSE IF r.ins_ptr >= Len(instrs) THEN Finish(r)
    ELSE [r EXCEPT !.status = "fuel"]

\* raw_input.chars().rev().collect()
Reverse(s) == [i \in 1..Len(s) |-> s[Len(s) + 1 - i]]

\* ------------------------------------------------------------ state
VARIABLES
    raw_file,       \* the text of the script (args.load)
    raw_input,      \* the text of the input file (args.input), empty if none
    live_input,     \* what the live input source supplies, read by read
    level,          \* args.level
    raw_bf,         \* the filtered, then rewritten symbol stream
    raw_len,        \* the raw symbol count reported by --debug
    pos,            \* position of the assembly loop in raw_bf (1-based)
    instructions,
    jumps,
    input_queue,
    memory,
    mem_ptr,
    ins_ptr,
    count,
    stdin,          \* what the live input source still holds
    stdout,         \* the bytes written to the output so far
    pc              \* "filter", "input", "peephole", "asm", "exec", "done",
                    \* "asm_panic", "panic", "hang"

vars == <<raw_file, raw_input, live_input, level, raw_bf, raw_len, pos, instructions, jumps,
          input_queue, memory, mem_ptr, ins_ptr, count, stdin, stdout, pc>>

args == <<raw_file, raw_input, live_input, level>>

asm_vars == <<instructions, jumps, pos>>

run_vars == <<memory, mem_ptr, ins_ptr, count, stdin, stdout>>

\* ------------------------------------------------------------ inputs
\* the symbols but ',', the '|' of the filter's character class, and 'x' (120),
\* a character of a comment
ShortAlphabet == {PLUS, MINUS, LT, GT, OPEN, CLOSE, DOT, PIPE, 120}

ShortPrograms == UNION {[1..k -> ShortAlphabet] : k \in 0..MaxLen}

RECURSIVE Times(_, _)
Times(s, k) == IF k = 0 THEN <<>> ELSE s \o Times(s, k - 1)

\* k non-zero cells n apart, the data pointer on the one the scan starts from
ScanSetup(ch, n, k) ==
    IF ch = GT THEN Times(<<PLUS>> \o Rep(GT, n), k) \o Rep(LT, k * n)
    ELSE Times(Rep(GT, n) \o <<PLUS>>, k)

ScanLoopText(ch, n) == <<OPEN>> \o Rep(ch, n) \o <<CLOSE>>

ScanPrograms ==
    {ScanSetup(ch, n, k) \o ScanLoopText(ch, n) \o post :
        ch \in {LT, GT}, n \in 1..MaxRep, k \in 0..MaxCells,
        post \in {<<>>, <<PLUS, DOT>>}}

\* d adjacent non-zero cells and a scan loop of stride n over them
DenseScanPrograms ==
    {Times(<<PLUS, GT>>, d) \o Rep(LT, d) \o ScanLoopText(GT, n) :
        d \in 1..(MaxCells + 1), n \in 1..(MaxCells + 1)}
    \cup
    {Times(<<GT, PLUS>>, d) \o ScanLoopText(LT, n) :
        d \in 1..(MaxCells + 1), n \in 1..(MaxCells + 1)}

IOPrograms ==
    {t \in UNION {[1..k -> {COMMA, DOT}] : k \in 1..(MaxIn + 1)} :
        \E i \in DOMAIN t : t[i] = COMMA}

\* one cell adjusted by a run of 255, 256 or 257 equal symbols, from the value 1
AdjustPrograms ==
    {<<PLUS, DOT>> \o Rep(ch, n) \o <<DOT>> : ch \in {PLUS, MINUS}, n \in 255..257}

\* the loops [-] and [+] met with every cell value: v = 0..128 counted up,
\* v = 129..255 counted down from 0
ZeroPrograms ==
    {Rep(PLUS, v) \o <<OPEN, ch, CLOSE, DOT>> : v \in 0..128, ch \in {PLUS, MINUS}}
    \cup
    {Rep(MINUS, 256 - v) \o <<OPEN, ch, CLOSE, DOT>> : v \in 129..255, ch \in {PLUS, MINUS}}

\* A walk to the last cell of the tape within MaxSteps instructions: the loop
\* ,[>...>,] moves Stride cells per pre-loaded input character and ends at the
\* end of the input, the remaining moves follow.
Hops == (MaxSteps - 20) \div 3

Stride == (MemLen - 1) \div Hops

WalkToLastCell ==
    <<COMMA, OPEN>> \o Rep(GT, Stride) \o <<COMMA, CLOSE>>
        \o Rep(GT, (MemLen - 1) - Hops * Stride)

\* what is executed on the last cell, or one cell further
EdgeTails ==
    {<<>>, <<PLUS>>, <<DOT>>, <<COMMA>>, <<OPEN, MINUS, CLOSE>>, <<OPEN, DOT, CLOSE>>,
     <<GT>>, <<GT, PLUS>>, <<GT, DOT>>, <<GT, COMMA>>, <<GT, OPEN, MINUS, CLOSE>>,
     <<GT, OPEN, DOT, CLOSE>>, <<GT, GT>>, <<GT, GT, PLUS>>,
     <<PLUS, OPEN, GT, CLOSE>>, <<PLUS, OPEN, MINUS, GT, CLOSE>>,
     <<GT, OPEN, GT, CLOSE>>}

EdgePrograms == {WalkToLastCell \o tail : tail \in EdgeTails}

\* the levels at which the walk takes Hops fused moves
FusingLevels == {l \in 0..MaxLevel : FuseEnabled(l)}

\* characters of the input file: 'A', U+00E9 and U+20AC
InputChars == {65, 233, 8364}

Inputs == UNION {[1..k -> InputChars] : k \in 0..MaxIn}

\* the live input: at its end, holding one byte, failing
Stdins == {<<>>, <<66>>, <<ReadErr>>}

Levels == 0..MaxLevel

Init ==
    /\ \/ /\ raw_file \in ShortPrograms \cup ScanPrograms \cup DenseScanPrograms
                          \cup AdjustPrograms \cup ZeroPrograms
          /\ raw_input = <<>>
          /\ live_input = <<>>
          /\ level \in Levels
       \/ /\ raw_file \in IOPrograms
          /\ raw_input \in Inputs
          /\ live_input \in Stdins
          /\ level \in Levels
       \/ /\ raw_file \in EdgePrograms
          /\ raw_input = Rep(UPPER_A, Hops)
          /\ live_input = <<>>
          /\ level \in FusingLevels
    /\ stdin = live_input
    /\ raw_bf = <<>>
    /\ raw_len = 0
    /\ pos = 1
    /\ instructions = <<>>
    /\ jumps = <<>>
    /\ input_queue = <<>>
    /\ memory = <<>>
    /\ mem_ptr = 0
    /\ ins_ptr = 0
    /\ count = 0
    /\ stdout = <<>>
    /\ pc = "filter"

\* ------------------------------------------------------------ actions
\* lines 107-108
FilterSymbols ==
    /\ pc = "filter"
    /\ raw_bf' = Filter(raw_file)
    /\ raw_len' = Len(raw_bf')
    /\ pc' = "input"
    /\ UNCHANGED <<args, asm_vars, input_queue, run_vars>>

\* lines 110-118
LoadInput ==
    /\ pc = "input"
    /\ input_queue' = Reverse(raw_input)
    /\ pc' = "peephole"
    /\ UNCHANGED <<args, raw_bf, raw_len, asm_vars, run_vars>>

\* lines 120-125
Optimize ==
    /\ pc = "peephole"
    /\ raw_bf' = Peephole(raw_bf, level)
    /\ pc' = "asm"
    /\ UNCHANGED <<args, raw_len, asm_vars, input_queue, run_vars>>

Asm == [instructions |-> instructions, jumps |-> jumps, status |-> "ok"]

\* lines 127-156, one symbol
AssembleSymbol ==
    /\ pc = "asm"
    /\ pos <= Len(raw_bf)
    /\ LET a == AsmStep(Asm, raw_bf[pos], level) IN
       /\ instructions' = a.instructions
       /\ jumps' = a.jumps
       /\ pc' = IF a.status = "panic" THEN "asm_panic" ELSE "asm"
    /\ pos' = pos + 1
    /\ UNCHANGED <<args, raw_bf, raw_len, input_queue, run_vars>>

\* lines 164-169: the stream is exhausted, the tape is allocated
StartExec ==
    /\ pc = "asm"
    /\ pos > Len(raw_bf)
    /\ memory' = <<>>
    /\ mem_ptr' = 0
    /\ ins_ptr' = 0
    /\ count' = 0
    /\ pc' = "exec"
    /\ UNCHANGED <<args, raw_bf, raw_len, asm_vars, input_queue, stdin, stdout>>

Machine ==
    [memory |-> memory, mem_ptr |-> mem_ptr, ins_ptr |-> ins_ptr, count |-> count,
     input_queue |-> input_queue, stdin |-> stdin, stdout |-> stdout,
     status |-> "run"]

SetMachine(n) ==
    /\ memory' = n.memory
    /\ mem_ptr' = n.mem_ptr
    /\ ins_ptr' = n.ins_ptr
    /\ count' = n.count
    /\ input_queue' = n.input_queue
    /\ stdin' = n.stdin
    /\ stdout' = n.stdout
    /\ pc' = CASE n.status = "run" -> "exec"
               [] n.status = "done" -> "done"
               [] n.status = "hang" -> "hang"
               [] OTHER -> "panic"

Fetching(cmd) ==
    /\ pc = "exec"
    /\ ins_ptr < Len(instructions)
    /\ count < MaxSteps
    /\ instructions[ins_ptr + 1].cmd = cmd

\* one iteration of the execution loop, with the outcome the build produces
Execute == \E n \in Step(instructions, Machine) : SetMachine(n)

\* lines 174-179
IncRef ==
    /\ Fetching("IncRef")
    /\ Execute
    /\ UNCHANGED <<args, raw_bf, raw_len, asm_vars>>

\* lines 180-184
IncVal ==
    /\ Fetching("IncVal")
    /\ Execute
    /\ UNCHANGED <<args, raw_bf, raw_len, asm_vars>>

\* lines 185-189
JumpBack ==
    /\ Fetching("JumpBack")
    /\ Execute
    /\ UNCHANGED <<args, raw_bf, raw_len, asm_vars>>

\* lines 190-194
JumpTo ==
    /\ Fetching("JumpTo")
    /\ Execute
    /\ UNCHANGED <<args, raw_bf, raw_len, asm_vars>>

\* lines 195-207
StdIn ==
    /\ Fetching("StdIn")
    /\ Execute
    /\ UNCHANGED <<args, raw_bf, raw_len, asm_vars>>

\* lines 208-216
StdOut ==
    /\ Fetching("StdOut")
    /\ Execute
    /\ UNCHANGED <<args, raw_bf, raw_len, asm_vars>>

\* lines 217-220
SetVal ==
    /\ Fetching("SetVal")
    /\ Execute
    /\ UNCHANGED <<args, raw_bf, raw_len, asm_vars>>

\* lines 221-227
ScanTo ==
    /\ Fetching("ScanTo")
    /\ Execute
    /\ UNCHANGED <<args, raw_bf, raw_len, asm_vars>>

\* lines 171 and 235: the loop ends
Halt ==
    /\ pc = "exec"
    /\ ins_ptr >= Len(instructions)
    /\ SetMachine(Finish(Machine))
    /\ UNCHANGED <<args, raw_bf, raw_len, asm_vars>>

Next ==
    \/ FilterSymbols
    \/ LoadInput
    \/ Optimize
    \/ AssembleSymbol
    \/ StartExec
    \/ IncRef
    \/ IncVal
    \/ JumpBack
    \/ JumpTo
    \/ StdIn
    \/ StdOut
    \/ SetVal
    \/ ScanTo
    \/ Halt

Spec == Init /\ [][Next]_vars

\* ------------------------------------------------------------ vocabulary
\* the eight recognized symbols
Recognized == {LT, GT, PLUS, MINUS, OPEN, CLOSE, DOT, COMMA}

IsRecognized(c) == c \in Recognized

\* the ordered subsequence of recognized symbols of the script
Symbols == SelectSeq(raw_file, IsRecognized)

\* loop-opens minus loop-closes among text[1..i]
Depth(text, i) ==
    Cardinality({j \in 1..i : text[j] = OPEN}) - Cardinality({j \in 1..i : text[j] = CLOSE})

ProperlyNested(text) ==
    /\ \A i \in 1..Len(text) : Depth(text, i) >= 0
    /\ Depth(text, Len(text)) = 0

\* text holds a loop-open that no later loop-close matches
UnmatchedOpen(text) ==
    \E i \in 1..Len(text) :
        /\ text[i] = OPEN
        /\ \A j \in i..Len(text) : Depth(text, j) - Depth(text, i - 1) > 0

\* the assembly loop has consumed the whole stream and handed over a Program
Assembled == pc \in {"exec", "done", "panic", "hang"}

\* the Program has just been handed over, nothing is executed yet
JustAssembled == pc = "exec" /\ count = 0

\* JumpTo minus JumpBack among the instructions with index i..j
InsDepth(instrs, i, j) ==
    Cardinality({k \in i..j : instrs[k + 1].cmd = "JumpTo"})
        - Cardinality({k \in i..j : instrs[k + 1].cmd = "JumpBack"})

\* j is the index of the loop-close that matches the loop-open with index i
Matches(instrs, i, j) ==
    /\ j > i /\ j < Len(instrs)
    /\ instrs[j + 1].cmd = "JumpBack"
    /\ InsDepth(instrs, i, j) = 0
    /\ \A k \in i..(j - 1) : InsDepth(instrs, i, k) > 0

\* the instruction about to be executed
Fetched == instructions[ins_ptr + 1]

\* the run of the same script on the same inputs at optimization level 0
Level0Run ==
    Run(Assemble(Peephole(Filter(raw_file), 0), 0).instructions,
        Boot(Reverse(raw_input), live_input), MaxSteps)

\* ------------------------------------------------------------ claims

\* C1: for a properly nested program, the run at optimization level >= 2 ends
\* with the same output bytes and the same tape as the run at level 0.
C1_SameOutputAndTape ==
    (pc = "done" /\ level >= 2 /\ ProperlyNested(Symbols) /\ Level0Run.status = "done")
        => (stdout = Level0Run.stdout /\ memory = Level0Run.memory)

\* C2: once a properly nested stream is assembled, at every level, each JumpTo
\* holds the index of its matching JumpBack, which holds the index of the
\* JumpTo, and no jump keeps the unresolved value -1.
C2_JumpsResolved ==
    Assembled =>
        \/ \A i \in 0..(Len(instructions) - 1) :
              /\ instructions[i + 1].cmd = "JumpTo" =>
                    /\ instructions[i + 1].val # -1
                    /\ Matches(instructions, i, instructions[i + 1].val)
                    /\ instructions[instructions[i + 1].val + 1].val = i
              /\ instructions[i + 1].cmd = "JumpBack" =>
                    /\ instructions[i + 1].val \in 0..(i - 1)
                    /\ instructions[instructions[i + 1].val + 1].cmd = "JumpTo"
                    /\ instructions[instructions[i + 1].val + 1].val = i
        \/ ~ProperlyNested(Symbols)

\* C3: a stream with a loop-open that is never closed, which leaves the jump
\* stack non-empty at the end of the stream, fails assembly: no Program is
\* handed to the execution loop and no instruction is executed.
C3_UnmatchedOpenFails ==
    (pos > Len(raw_bf) /\ jumps # <<>> /\ UnmatchedOpen(Symbols))
        => (~Assembled /\ count = 0)

\* C4: a loop-close met with the jump stack empty ends the assembly at that
\* symbol; nothing is executed, the tape is untouched, no byte is written,
\* and nothing happens afterwards.
C4_UnmatchedCloseFails ==
    [][/\ (/\ pc = "asm"
           /\ pos <= Len(raw_bf)
           /\ try_from(raw_bf[pos]).cmd = "JumpBack"
           /\ jumps = <<>>)
          => (/\ pc' = "asm_panic"
              /\ count' = 0
              /\ memory' = <<>>
              /\ mem_ptr' = 0
              /\ stdout' = <<>>)
       /\ pc # "asm_panic"]_vars

C4_Witness == pc = "asm_panic" /\ level > 0 /\ Len(instructions) > 0

\* C5: at level > 0 the loop of n pointer-left (pointer-right) symbols, n in
\* 1..27, becomes one symbol (an uppercase letter for pointer-right) that is
\* decoded as the single instruction ScanTo -n (ScanTo +n); with more than 27
\* repeats the loop is left as it is.
C5_ScanLoopsRewritten ==
    \A ch \in {LT, GT} : \A n \in 1..MaxRep :
        (level > 0 /\ raw_file = ScanLoopText(ch, n) /\ Assembled) =>
            IF n <= 27
            THEN /\ Len(raw_bf) = 1
                 /\ ch = GT => is_ascii_uppercase(raw_bf[1])
                 /\ instructions = <<New("ScanTo", IF ch = LT THEN 0 - n ELSE n)>>
            ELSE raw_bf = raw_file

\* C6: an executed Output instruction appends exactly one byte, the value of
\* the addressed cell.
C6_OutputOneByte ==
    [][(Fetching("StdOut") /\ pc' = "exec")
          => stdout' = Append(stdout, MemRead(memory, mem_ptr + Fetched.offset))]_vars

\* C7: while pre-loaded elements remain, the k-th Input stores the k-th element
\* of the pre-loaded input and consumes exactly that one; the live input is
\* read only when no pre-loaded element is left.
C7_InputInOrder ==
    [][Fetching("StdIn") =>
          /\ (input_queue # <<>> /\ pc' = "exec") =>
                /\ MemRead(memory', mem_ptr + Fetched.offset)
                      = raw_input[Len(raw_input) - Len(input_queue) + 1]
                /\ Len(input_queue') = Len(input_queue) - 1
                /\ stdin' = stdin
          /\ stdin' # stdin => input_queue = <<>>]_vars

\* C8: an Input executed with the pre-loaded queue empty and the live input at
\* its end aborts the run without writing a cell.
C8_EndOfInputAborts ==
    [][(Fetching("StdIn") /\ input_queue = <<>> /\ stdin = <<>>)
          => (pc' = "panic" /\ memory' = memory)]_vars

\* C9: the filtered stream is the ordered subsequence of the eight recognized
\* symbols of the script, and the reported raw symbol count is its length.
C9_FilterKeepsSymbolsOnly ==
    /\ pc \in {"input", "peephole"} => raw_bf = Symbols
    /\ pc # "filter" => raw_len = Len(Symbols)

\* the loop of |s| pointer moves that the optimizer rewrites to the stride s,
\* as assembled at level 0
NaiveLoop(s) ==
    Assemble(ScanLoopText(IF s < 0 THEN LT ELSE GT, IF s < 0 THEN 0 - s ELSE s), 0).instructions

\* that loop executed step by step on the current tape from the current data pointer
NaiveRun(s) == Run(NaiveLoop(s), [Machine EXCEPT !.ins_ptr = 0, !.count = 0], MaxSteps)

\* C10: where the loop of |s| pointer moves ends without a fault, one dispatch
\* of ScanTo s ends with the same data pointer and changes no cell.
C10_ScanEqualsLoop ==
    [][(Fetching("ScanTo") /\ NaiveRun(Fetched.val).status = "done")
          => (/\ pc' = "exec"
              /\ mem_ptr' = NaiveRun(Fetched.val).mem_ptr
              /\ memory' = memory)]_vars

\* a ScanTo has just moved the data pointer to the right by its stride
C10_Witness ==
    /\ pc = "exec"
    /\ ins_ptr > 0
    /\ instructions[ins_ptr].cmd = "ScanTo"
    /\ instructions[ins_ptr].val > 1
    /\ mem_ptr = instructions[ins_ptr].val
    /\ MemRead(memory, mem_ptr) = 0
    /\ MemRead(memory, 0) # 0

\* C11: no instruction is fetched with a negative data pointer and no cell has
\* a negative address: an IncRef whose result is negative, and a ScanTo whose
\* stride leads over non-zero cells to below index 0, end the run at that
\* instruction with the tape and the output as they were, and nothing is
\* executed after the abort.
C11_NoNegativePointer ==
    [][/\ pc' = "exec" => mem_ptr' >= 0
       /\ \A a \in DOMAIN memory' : a >= 0
       /\ (Fetching("IncRef") /\ mem_ptr + Fetched.val < 0)
             => (pc' = "panic" /\ memory' = memory /\ stdout' = stdout /\ count' = count)
       /\ (Fetching("ScanTo") /\ Fetched.val < 0)
             => LET s == 0 - Fetched.val
                    k == (mem_ptr \div s) + 1
                IN (\A j \in 0..(k - 1) : MemRead(memory, mem_ptr - j * s) # 0)
                      => (pc' = "panic" /\ memory' = memory /\ stdout' = stdout
                          /\ count' = count)
       /\ pc # "panic"]_vars

\* a pointer move to below index 0 has ended a run that had already written a cell
C11_Witness ==
    /\ pc = "panic"
    /\ mem_ptr < 0
    /\ count > 0
    /\ memory # <<>>
    /\ instructions[ins_ptr + 1].cmd = "IncRef"

\* C12: an executed IncVal with value v, whatever its size and sign, leaves in
\* the current cell the value in 0..255 that differs from old + v by a
\* multiple of 256, and changes no other cell, not the data pointer and not
\* the input queue.
C12_CellAdjustWraps ==
    [][(Fetching("IncVal") /\ pc' = "exec") =>
          LET v == Fetched.val
              wraps == (IF v < 0 THEN 0 - v ELSE v) \div 256 + 1
              old == MemRead(memory, mem_ptr)
              new == MemRead(memory', mem_ptr)
          IN /\ new \in 0..255
             /\ \E k \in (0 - wraps)..wraps : new = old + v - 256 * k
             /\ \A x \in (DOMAIN memory \cup DOMAIN memory') \ {mem_ptr} :
                   MemRead(memory', x) = MemRead(memory, x)
             /\ mem_ptr' = mem_ptr
             /\ input_queue' = input_queue]_vars

\* a fused run of at least 256 '-' has just been applied to a cell that held 1
C12_Witness ==
    /\ pc = "exec"
    /\ ins_ptr > 0
    /\ instructions[ins_ptr].cmd = "IncVal"
    /\ instructions[ins_ptr].val <= -256
    /\ stdout = <<1>>
    /\ MemRead(memory, mem_ptr) \in {1, 0}

\* the instruction kind and value that a recognized symbol stands for
SymbolKind(c) ==
    CASE c \in {LT, GT} -> "IncRef"
      [] c \in {PLUS, MINUS} -> "IncVal"
      [] c = OPEN -> "JumpTo"
      [] c = CLOSE -> "JumpBack"
      [] c = DOT -> "StdOut"
      [] c = COMMA -> "StdIn"

SymbolValue(c) == IF c \in {GT, PLUS} THEN 1 ELSE -1

\* text holds a loop idiom: [+], [-], or a loop of 1..27 equal pointer moves
HasIdiom(text) ==
    \E i \in 1..Len(text) :
        /\ text[i] = OPEN
        /\ \E n \in 1..27 :
              /\ i + n + 1 <= Len(text)
              /\ text[i + n + 1] = CLOSE
              /\ \/ n = 1 /\ text[i + 1] \in {PLUS, MINUS}
                 \/ \E ch \in {LT, GT} : \A j \in 1..n : text[i + j] = ch

\* two neighbouring instructions are both IncRef or both IncVal
AdjacentSameKind(instrs) ==
    \E i \in 1..(Len(instrs) - 1) :
        /\ instrs[i].cmd \in {"IncRef", "IncVal"}
        /\ instrs[i + 1].cmd = instrs[i].cmd

\* C13: at level 0 the assembled Program is one instruction per recognized
\* symbol of the script, in order, none of them SetVal or ScanTo; at level >= 1 a
\* filtered stream that holds a loop idiom is rewritten to a shorter one; at
\* level 1 every character of the rewritten stream that decodes gives its own
\* instruction, so every IncRef and IncVal keeps the value +1 or -1; at
\* level >= 2 no two neighbouring instructions are both IncRef or both IncVal.
C13_LevelGating ==
    /\ (JustAssembled /\ level = 0) =>
          LET symbols == Symbols IN
          /\ Len(instructions) = Len(symbols)
          /\ \A i \in 1..Len(instructions) :
                /\ instructions[i].cmd = SymbolKind(symbols[i])
                /\ instructions[i].cmd \in {"IncRef", "IncVal"}
                      => instructions[i].val = SymbolValue(symbols[i])
    /\ (pc = "asm" /\ pos = 1) =>
          IF level = 0 THEN raw_bf = Filter(raw_file)
          ELSE HasIdiom(Filter(raw_file)) => Len(raw_bf) < Len(Filter(raw_file))
    /\ (JustAssembled /\ level = 1) =>
          /\ Len(instructions)
                = Cardinality({i \in 1..Len(raw_bf) : try_from(raw_bf[i]).cmd # "Err"})
          /\ \A i \in 1..Len(instructions) :
                instructions[i].cmd \in {"IncRef", "IncVal"}
                    => instructions[i].val \in {-1, 1}
    /\ (JustAssembled /\ level >= 2) => ~AdjacentSameKind(instructions)

\* a Program of level 1 with a SetVal from a rewritten loop and two
\* neighbouring IncVal that were left apart
C13_Witness ==
    /\ JustAssembled
    /\ level = 1
    /\ \E i \in 1..Len(instructions) : instructions[i].cmd = "SetVal"
    /\ \E i \in 1..(Len(instructions) - 1) :
          instructions[i].cmd = "IncVal" /\ instructions[i + 1].cmd = "IncVal"

\* the loop [-] or [+], as assembled at level 0
ZeroLoop(ch) == Assemble(<<OPEN, ch, CLOSE>>, 0).instructions

\* that loop executed step by step on the current tape from the current data
\* pointer, for as many instructions as the longest such loop takes
ZeroLoopRun(ch) ==
    RunFrom(ZeroLoop(ch), [Machine EXCEPT !.ins_ptr = 0, !.count = 0], 2 * 256)

\* C14: whatever value the current cell holds, the loops [-] and [+] executed
\* instruction by instruction come to their end with the current cell 0 and
\* with the other cells, the data pointer, the input queue and the output
\* unchanged, which is the state that one dispatch of SetVal 0 produces.
C14_ZeroLoopEqualsSetVal ==
    [][(Fetching("SetVal") /\ InBounds(mem_ptr)) =>
          \A ch \in {PLUS, MINUS} :
              LET r == ZeroLoopRun(ch) IN
              /\ r.status = "run"
              /\ r.ins_ptr = Len(ZeroLoop(ch))
              /\ MemRead(r.memory, mem_ptr) = 0
              /\ \A x \in DOMAIN memory \ {mem_ptr} : MemRead(r.memory, x) = memory[x]
              /\ DOMAIN r.memory \subseteq DOMAIN memory
              /\ r.mem_ptr = mem_ptr
              /\ r.input_queue = input_queue
              /\ r.stdin = stdin
              /\ r.stdout = stdout
              /\ pc' = "exec"
              /\ memory' = r.memory
              /\ mem_ptr' = r.mem_ptr
              /\ input_queue' = r.input_queue
              /\ stdin' = r.stdin
              /\ stdout' = r.stdout]_vars

\* SetVal has just cleared the cell that '-' had set to 255, in place of [+]
C14_Witness ==
    /\ pc = "exec"
    /\ raw_file = <<MINUS, OPEN, PLUS, CLOSE, DOT>>
    /\ ins_ptr = 2
    /\ instructions[ins_ptr].cmd = "SetVal"
    /\ memory = <<>>

Decodes(ins) == ins.cmd # "Err"

\* the instructions that the characters of the rewritten stream decode to, in order
Decoded ==
    SelectSeq([i \in 1..Len(raw_bf) |-> try_from(raw_bf[i])], Decodes)

\* the positions of dec where a maximal run of IncRef, or of IncVal, or a
\* single instruction of another kind, starts
RunStarts(dec) ==
    {i \in 1..Len(dec) :
        \/ i = 1
        \/ dec[i].cmd \notin {"IncRef", "IncVal"}
        \/ dec[i - 1].cmd # dec[i].cmd}

\* C15: at level >= 2 the Program is the decoded stream with every maximal run
\* of IncRef instructions, and every maximal run of IncVal instructions,
\* replaced by one instruction whose value is the sum of the run, everything
\* else kept in place (so nothing is merged across an instruction of another
\* kind); and every JumpBack and the JumpTo it closes hold each other's index
\* in the merged Program.
C15_FusionMergesRuns ==
    (JustAssembled /\ level >= 2) =>
        LET dec == Decoded
            starts == RunStarts(dec)
        IN
        /\ Len(instructions) = Cardinality(starts)
        /\ \A s \in starts :
              LET k == Cardinality({t \in starts : t <= s})
                  e == CHOOSE j \in s..Len(dec) :
                          /\ j + 1 \in starts \cup {Len(dec) + 1}
                          /\ \A t \in (s + 1)..j : t \notin starts
              IN
              /\ instructions[k].cmd = dec[s].cmd
              /\ dec[s].cmd \in {"IncRef", "IncVal"} =>
                    instructions[k].val
                        = Cardinality({j \in s..e : dec[j].val = 1})
                            - Cardinality({j \in s..e : dec[j].val = -1})
              /\ dec[s].cmd \in {"StdIn", "StdOut", "SetVal", "ScanTo"} =>
                    instructions[k].val = dec[s].val
        /\ \A i \in 0..(Len(instructions) - 1) :
              /\ instructions[i + 1].cmd = "JumpBack" =>
                    /\ Matches(instructions, instructions[i + 1].val, i)
                    /\ instructions[instructions[i + 1].val + 1].cmd = "JumpTo"
                    /\ instructions[instructions[i + 1].val + 1].val = i
              /\ instructions[i + 1].cmd = "JumpTo" =>
                    \A j \in 0..(Len(instructions) - 1) :
                        Matches(instructions, i, j) => instructions[i + 1].val = j

\* a Program of level 2 with a merged run before a loop and another inside it:
\* the loop-open holds the index of the loop-close in the merged Program
C15_Witness ==
    /\ JustAssembled
    /\ level >= 2
    /\ Len(instructions) < Len(raw_bf)
    /\ \E i \in 2..(Len(instructions) - 2) :
          /\ instructions[i - 1].cmd = "IncRef"
          /\ instructions[i - 1].val < -1
          /\ instructions[i].cmd = "JumpTo"
          /\ instructions[i].val = i + 1
          /\ instructions[i + 1].cmd = "IncRef"
          /\ instructions[i + 1].val > 1
          /\ instructions[i + 2].cmd = "JumpBack"

\* the run r was aborted by a pointer move to below index 0
InvalidAddress(r) == r.status = "panic" /\ r.mem_ptr < 0

\* C16: when the run at level 0 is aborted by a pointer move to below index 0,
\* the run of the same script at level >= 2 ends in the same way, with the same
\* bytes written before the abort.
C16_FusionKeepsInvalidAddress ==
    (level >= 2 /\ pc \in {"done", "panic", "hang"} /\ InvalidAddress(Level0Run))
        => (/\ pc = "panic"
            /\ mem_ptr < 0
            /\ stdout = Level0Run.stdout)

\* C17: a JumpTo with index o whose matching JumpBack has index c, executed on
\* a zero cell, is followed by the instruction c + 1 (the end of the run if
\* c + 1 is the length of the Program), and on a non-zero cell by o + 1; the
\* JumpBack with index c, executed on a non-zero cell, is followed by o + 1,
\* and on a zero cell by c + 1; neither changes a cell, the data pointer, the
\* input queue or the output.
C17_LoopControlFlow ==
    [][((Fetching("JumpTo") \/ Fetching("JumpBack")) /\ InBounds(mem_ptr)) =>
          \A other \in 0..(Len(instructions) - 1) :
              LET o == IF Fetched.cmd = "JumpTo" THEN ins_ptr ELSE other
                  c == IF Fetched.cmd = "JumpTo" THEN other ELSE ins_ptr
              IN (instructions[o + 1].cmd = "JumpTo" /\ Matches(instructions, o, c))
                 => /\ pc' = "exec"
                    /\ ins_ptr' = IF MemRead(memory, mem_ptr) = 0 THEN c + 1 ELSE o + 1
                    /\ count' = count + 1
                    /\ memory' = memory
                    /\ mem_ptr' = mem_ptr
                    /\ input_queue' = input_queue
                    /\ stdout' = stdout]_vars

\* a loop-close on a non-zero cell has just sent the run back into the body of
\* its loop, which had been entered before
C17_Witness ==
    /\ pc = "exec"
    /\ ins_ptr > 0
    /\ ins_ptr < Len(instructions)
    /\ instructions[ins_ptr].cmd = "JumpTo"
    /\ count > ins_ptr + 1
    /\ MemRead(memory, mem_ptr) # 0
    /\ \E c \in 0..(Len(instructions) - 1) : Matches(instructions, ins_ptr - 1, c)

\* C18: for every Program handed to the execution loop the instruction pointer
\* stays within 0..length, the value a fetched jump would assign is the index
\* of an instruction of the Program, and the run has ended normally only with
\* the instruction pointer equal to the length.
C18_InsPtrInProgram ==
    Assembled =>
        /\ ins_ptr \in 0..Len(instructions)
        /\ pc = "done" => ins_ptr = Len(instructions)
        /\ (pc = "exec" /\ ins_ptr < Len(instructions)
                /\ Fetched.cmd \in {"JumpTo", "JumpBack"})
              => Fetched.val \in 0..(Len(instructions) - 1)

\* the instructions that test, read or write a cell
CellCommands == {"IncVal", "JumpTo", "JumpBack", "StdIn", "StdOut", "SetVal", "ScanTo"}

\* C19: no cell at an address of MemLen or more exists: an instruction that
\* tests, reads or writes the cell at the data pointer (plus its offset) when
\* that address is MemLen or more, and a ScanTo whose stride leads over
\* non-zero cells to such an address, end the run at that instruction with the
\* tape unchanged; an IncRef that moves the data pointer to MemLen or beyond
\* is executed like any other and the run goes on.
C19_NoCellBeyondTape ==
    [][/\ \A a \in DOMAIN memory' : a < MemLen
       /\ \A cmd \in CellCommands :
             (Fetching(cmd) /\ mem_ptr + Fetched.offset >= MemLen)
                => (/\ pc' = "panic"
                    /\ memory' = memory
                    /\ ins_ptr' = ins_ptr
                    /\ count' = count)
       /\ (Fetching("ScanTo") /\ Fetched.val > 0 /\ mem_ptr < MemLen)
             => LET s == Fetched.val
                    k == ((MemLen - 1 - mem_ptr) \div s) + 1
                IN (\A j \in 0..(k - 1) : MemRead(memory, mem_ptr + j * s) # 0)
                      => (/\ pc' = "panic"
                          /\ memory' = memory
                          /\ ins_ptr' = ins_ptr
                          /\ count' = count)
       /\ (Fetching("ScanTo") /\ pc' = "exec") => (mem_ptr' < MemLen /\ memory' = memory)
       /\ (Fetching("IncRef") /\ mem_ptr + Fetched.val >= MemLen)
             => (/\ pc' = "exec"
                 /\ mem_ptr' = mem_ptr + Fetched.val
                 /\ ins_ptr' = ins_ptr + 1
                 /\ memory' = memory)]_vars

\* the data pointer was moved from the last cell to the address MemLen without
\* an abort, and the SetVal that followed has ended the run
C19_Witness ==
    /\ pc = "panic"
    /\ mem_ptr = MemLen
    /\ ins_ptr > 0
    /\ instructions[ins_ptr].cmd = "IncRef"
    /\ instructions[ins_ptr + 1].cmd = "SetVal"
    /\ MemRead(memory, 0) # 0

====
